---- MODULE Spec2Model ----
(***************************************************************************)
(* jsonresume-theme-caffine: the PDF generation pipeline                   *)
(* (generate-resume.js: generateResumePDF and generateResumeHTML,          *)
(* export-pdf.js: exportPDF, in the versions of the two files), the header *)
(* synthesizer that builds the contact strip, and cli.js.                  *)
(*                                                                         *)
(* Invocations share one file system.  Every call to fs or to the headless *)
(* engine is one step, so invocations interleave between any two of them   *)
(* (API calls of one node process interleave at each await, invocations of *)
(* different processes at every call).                                     *)
(***************************************************************************)
EXTENDS Integers, Sequences, FiniteSets, TLC

\* ------------------------------------------------------------------ bounds
MaxClock == 2        \* distinct values Date.now() returns during a run
MaxProfiles == 2     \* longest basics.profiles list
MaxArgs == 4         \* longest command line (process.argv.slice(2))

\* The invocations: two, which may be in flight together.
Invs == {1, 2}
Stamps == 1..MaxClock

\* The destination paths callers pass; both lie in the same directory and
\* neither is the path of an input file or of a transient file.
OutPaths == {"a.pdf", "b.pdf"}

\* The destination when none is given: options.output of cli.js
\* ('./resume.pdf') and the path of the export scripts ('resume.pdf').
DefaultOutput == "resume.pdf"
Paths == OutPaths \cup {DefaultOutput}

\* The JavaScript value undefined (a marker no string of the inputs equals).
Undefined == "<undefined>"

\* The resume argument of generateResumePDF: a path to a file holding valid
\* JSON, a path to a file holding text that is no JSON, a path to no file, a
\* resume object, or a value that is neither (a number).
ResumeArgs == {"path_valid", "path_invalid", "path_missing", "object", "number"}

\* The resume arguments that are no path: a resume object, a number, null,
\* undefined.
ValueArgs == {"object", "number", "null", "undefined"}

\* The operations a process runs, by the file that holds them:
\*   generateResumePDF       generate-resume.js with the header band
\*   generateResumePDFPlain  generate-resume.js without header and footer
\*   exportPDF               export-pdf.js taking its paths as arguments
\*   exportScript            export-pdf.js with the fixed paths
\*   exportLegacy            export-pdf.js with the fixed paths and the
\*                           "<name> - Resume" header
GenerateOps == {"generateResumePDF", "generateResumePDFPlain"}
ExportOps == {"exportPDF", "exportScript", "exportLegacy"}

\* setContent is given htmlWithHiddenHeader (html.replace('<style>', ...);
\* the rendered document embeds its stylesheet in a <style> element).
HidesHeader(o) == o \in {"generateResumePDF", "exportPDF", "exportScript"}

\* The option object of page.pdf: displayHeaderFooter and margin.
PdfOptions(o) ==
  CASE o = "generateResumePDFPlain" ->
         [displayHeaderFooter |-> FALSE,
          margin |-> [top |-> "30px", right |-> "0px", bottom |-> "0px", left |-> "0px"]]
    [] o = "exportLegacy" ->
         [displayHeaderFooter |-> TRUE,
          margin |-> [top |-> "80px", right |-> "40px", bottom |-> "80px", left |-> "40px"]]
    [] OTHER ->
         [displayHeaderFooter |-> TRUE,
          margin |-> [top |-> "80px", right |-> Undefined, bottom |-> "30px", left |-> Undefined]]

NoPdfOptions ==
  [displayHeaderFooter |-> FALSE,
   margin |-> [top |-> Undefined, right |-> Undefined, bottom |-> Undefined, left |-> Undefined]]

\* typeof resume
TypeOf(r) ==
  CASE r \in {"path_valid", "path_invalid", "path_missing"} -> "string"
    [] r \in {"object", "null"} -> "object"
    [] r = "undefined" -> "undefined"
    [] OTHER -> "number"

\* fs.existsSync(resumePath) for a path-form resume argument
InputExists(r) == r \in {"path_valid", "path_invalid"}

\* JSON.parse(fs.readFileSync(resumePath)) succeeds
InputParses(r) == r = "path_valid"

VARIABLES
  pc,          \* pc[i]: the statement invocation i executes next
  op,          \* op[i]: the operation invocation i runs
  resume,      \* options.resume
  outputPath,  \* options.outputPath
  resumePath,  \* the timestamp in the transient file's name, 0 before it is set
  browser,     \* the engine instance of invocation i: none, open, closed
  err,         \* the error invocation i failed with, "" if none
  value,       \* the value the promise of invocation i resolved to
  now,         \* the value Date.now() returned last
  dirs,        \* dirs[d]: directory d exists ("tmp": tmpDir, "out": dirname(outputPath))
  tmpFiles,    \* tmpFiles[t]: the writer of resume_<t>.json in tmpDir, 0 if no such file
  outFiles,    \* outFiles[p]: the writer of the PDF at p, 0 if no such file
  made,        \* made[i]: the directories invocation i created
  wrote,       \* wrote[i]: invocation i wrote its transient file
  unlinks,     \* unlinks[i]: successful fs.unlinkSync calls of invocation i
  trace,       \* trace[i]: the statements invocation i has executed, in order
  engine,      \* engine[i]: the instance the browser constant of i holds (named
               \* by the invocation whose launch created it), 0 before the launch
  usedBy,      \* usedBy[e]: the invocations that called into engine instance e
  loaded,      \* loaded[i]: the document given to page.setContent
  pdfOpts,     \* pdfOpts[i]: the options given to page.pdf
  hpc,         \* header synthesizer: the block executed next
  resumeData,  \* header synthesizer: the parsed resume
  basics,      \* header synthesizer: resumeData.basics || {}
  contactInfo, \* header synthesizer: the contact strip, a sequence of pieces
  headerName,  \* header synthesizer: the name in the header template
  pdfMargin,   \* header synthesizer: the margin given to page.pdf with the template
  args,        \* cli.js: process.argv.slice(2)
  argi,        \* cli.js: the loop index i, from 1
  options,     \* cli.js: options.input and options.output
  exitCode,    \* cli.js: the exit code of the process, -1 while it runs
  cpc,         \* cli.js: the statement executed next
  fileText,    \* generateResumeHTML: the text of the file at the path "path_valid"
  object,      \* generateResumeHTML: object[i], the resume object call i is given
  data,        \* generateResumeHTML: data[i], resumeData of call i
  html,        \* generateResumeHTML: html[i], the string call i returned
  inputFiles   \* inputFiles[r]: the file at the caller's input path r
               \* ("intact": as the caller left it, "deleted", "absent")

pipeVars == <<pc, op, resume, outputPath, resumePath, browser, err, value, now,
              dirs, tmpFiles, outFiles, made, wrote, unlinks,
              trace, engine, usedBy, loaded, pdfOpts>>
pageVars == <<engine, usedBy, loaded, pdfOpts>>
headerVars == <<hpc, resumeData, basics, contactInfo, headerName, pdfMargin>>
cliVars == <<args, argi, options, exitCode, cpc>>
htmlVars == <<fileText, object, data, html>>
inputVars == <<inputFiles>>
nonPipeVars == <<headerVars, cliVars, htmlVars, inputVars>>
nonHeaderVars == <<pipeVars, cliVars, htmlVars, inputVars>>
vars == <<pc, op, resume, outputPath, resumePath, browser, err, value, now,
          dirs, tmpFiles, outFiles, made, wrote, unlinks,
          trace, engine, usedBy, loaded, pdfOpts,
          hpc, resumeData, basics, contactInfo, headerName, pdfMargin,
          args, argi, options, exitCode, cpc,
          fileText, object, data, html, inputFiles>>

\* ------------------------------------------------------- pipeline helpers
\* The paths a caller passes as resume, and the file the caller has at each.
InputPaths == {"path_valid", "path_invalid", "path_missing"}
GivenFile(r) == IF InputExists(r) THEN "intact" ELSE "absent"

Finished == {"resolved", "rejected", "exited"}
InFlight(i) == pc[i] \notin (Finished \cup {"idle"})

\* A statement throws e: generateResumePDF logs and rethrows (catch, lines
\* 141-144), exportPDF logs and ends the process (catch, lines 97-100).
Throw(i, e) ==
  /\ pc' = [pc EXCEPT ![i] = IF op[i] \in ExportOps THEN "exited" ELSE "rejected"]
  /\ err' = [err EXCEPT ![i] = e]
  /\ trace' = [trace EXCEPT ![i] = Append(@, pc[i])]

\* A statement completes and control passes on.
Goto(i, next) ==
  /\ pc' = [pc EXCEPT ![i] = next]
  /\ trace' = [trace EXCEPT ![i] = Append(@, pc[i])]
  /\ UNCHANGED err

\* How often invocation i executed a statement.
Executed(i, statement) ==
  LET is(s) == s = statement IN Len(SelectSeq(trace[i], is))

PipeInit ==
  /\ pc = [i \in Invs |-> "idle"]
  /\ op = [i \in Invs |-> "none"]
  /\ resume = [i \in Invs |-> "none"]
  /\ outputPath = [i \in Invs |-> "none"]
  /\ resumePath = [i \in Invs |-> 0]
  /\ browser = [i \in Invs |-> "none"]
  /\ err = [i \in Invs |-> ""]
  /\ value = [i \in Invs |-> Undefined]
  /\ now = 1
  /\ tmpFiles = [t \in Stamps |-> 0]
  /\ outFiles = [p \in Paths |-> 0]
  /\ made = [i \in Invs |-> {}]
  /\ wrote = [i \in Invs |-> FALSE]
  /\ unlinks = [i \in Invs |-> 0]
  /\ trace = [i \in Invs |-> <<>>]
  /\ engine = [i \in Invs |-> 0]
  /\ usedBy = [e \in Invs |-> {}]
  /\ loaded = [i \in Invs |-> "none"]
  /\ pdfOpts = [i \in Invs |-> NoPdfOptions]
  /\ inputFiles = [r \in InputPaths |-> GivenFile(r)]

\* ------------------------------------------------- header synthesizer data
\* basics.name, basics.phone, basics.email: absent, the empty string or text.
Names == {Undefined, "Jane Doe"}
Phones == {Undefined, "", "555-0100"}
Emails == {Undefined, "", "jane@example.com"}

\* A profile entry is null or { network, url }, either field possibly absent.
Networks == {Undefined, "LinkedIn", "linkedin", "GitHub", "Twitter"}
Urls == {Undefined, "https://u1", "https://u2"}
NullEntry == [isNull |-> TRUE, network |-> Undefined, url |-> Undefined]
Entries == {NullEntry} \cup [isNull : {FALSE}, network : Networks, url : Urls]

\* basics.profiles: absent (hasProfiles is FALSE) or a list of entries.
ProfileLists == UNION {[1..n -> Entries] : n \in 0..MaxProfiles}

\* {} : the value resumeData.basics || {} takes when basics is absent.
EmptyBasics ==
  [name |-> Undefined, phone |-> Undefined, email |-> Undefined,
   hasProfiles |-> FALSE, profiles |-> <<>>]

BasicsValues ==
  {EmptyBasics} \cup
  [name : Names, phone : Phones, email : Emails,
   hasProfiles : {TRUE}, profiles : ProfileLists] \cup
  [name : Names, phone : Phones, email : Emails,
   hasProfiles : {FALSE}, profiles : {<<>>}]

\* The parsed resume: basics absent (hasBasics is FALSE) or a basics value.
ResumeDatas ==
  {[hasBasics |-> FALSE, basics |-> EmptyBasics]} \cup
  [hasBasics : {TRUE}, basics : BasicsValues]

\* The truth value JavaScript gives a string or undefined in a condition.
Truthy(v) == v \notin {Undefined, ""}

\* String.prototype.toLowerCase on the network names of the inputs.
ToLowerCase(s) ==
  CASE s = "LinkedIn" -> "linkedin"
    [] s = "GitHub" -> "github"
    [] s = "Twitter" -> "twitter"
    [] OTHER -> s

\* `${v}` in a template literal.
Interpolate(v) == IF v = Undefined THEN "undefined" ELSE v

\* The pieces a contact strip is concatenated from.
Divider == [kind |-> "divider", text |-> "|"]
Segment(kind, text) == [kind |-> kind, text |-> text]

\* profiles.find(p => p.network && p.network.toLowerCase() === target) from
\* entry k on: the index of the first match (0 if there is none); reading
\* p.network of a null entry throws.
RECURSIVE FindFrom(_, _, _)
FindFrom(list, k, target) ==
  IF k > Len(list) THEN [threw |-> FALSE, index |-> 0]
  ELSE IF list[k].isNull THEN [threw |-> TRUE, index |-> 0]
  ELSE IF Truthy(list[k].network) /\ ToLowerCase(list[k].network) = target
    THEN [threw |-> FALSE, index |-> k]
  ELSE FindFrom(list, k + 1, target)

\* find returning the last match instead of the first.
Find_LastMatch(list, target) ==
  LET matches == {k \in DOMAIN list :
                    /\ ~list[k].isNull
                    /\ Truthy(list[k].network)
                    /\ ToLowerCase(list[k].network) = target}
  IN [threw |-> FindFrom(list, 1, target).threw,
      index |-> IF matches = {} THEN 0
                ELSE CHOOSE k \in matches : \A j \in matches : j <= k]

Find(list, target) == FindFrom(list, 1, target)

HeaderIdle ==
  /\ hpc = "idle"
  /\ resumeData = [hasBasics |-> FALSE, basics |-> EmptyBasics]
  /\ basics = EmptyBasics
  /\ contactInfo = <<>>
  /\ headerName = Undefined
  /\ pdfMargin = NoPdfOptions.margin

\* ------------------------------------------------------ generateResumePDF
\* A caller invokes generateResumePDF(options) (line 14-15).
Call(i) ==
  /\ pc[i] = "idle"
  /\ \E r \in ResumeArgs, o \in OutPaths :
       /\ resume' = [resume EXCEPT ![i] = r]
       /\ outputPath' = [outputPath EXCEPT ![i] = o]
  /\ op' = [op EXCEPT ![i] = "generateResumePDF"]
  /\ pc' = [pc EXCEPT ![i] = "input"]
  /\ UNCHANGED <<err, trace>>
  /\ UNCHANGED <<resumePath, browser, value, now, dirs, tmpFiles, outFiles,
                 made, wrote, unlinks>>
  /\ UNCHANGED pageVars
  /\ UNCHANGED nonPipeVars

\* The input test with a transient file made for a path as well.
Input_TmpForPath(i) ==
  /\ pc[i] = "input"
  /\ op[i] \in GenerateOps
  /\ CASE TypeOf(resume[i]) \in {"string", "object"} ->
            /\ \E timestamp \in Stamps :
                 /\ timestamp >= now
                 /\ now' = timestamp
                 /\ resumePath' = [resumePath EXCEPT ![i] = timestamp]
            /\ Goto(i, "tmp_exists")
       [] OTHER ->
            /\ Throw(i, "BadResume")
            /\ UNCHANGED <<resumePath, now>>
  /\ UNCHANGED <<op, resume, outputPath, browser, value, dirs, tmpFiles,
                 outFiles, made, wrote, unlinks>>
  /\ UNCHANGED pageVars
  /\ UNCHANGED nonPipeVars

\* A caller invokes generateResumePDF(options) with a resume that is no path
\* (line 14-15).
CallValue(i) ==
  /\ pc[i] = "idle"
  /\ \E r \in ValueArgs, o \in OutPaths :
       /\ resume' = [resume EXCEPT ![i] = r]
       /\ outputPath' = [outputPath EXCEPT ![i] = o]
  /\ op' = [op EXCEPT ![i] = "generateResumePDF"]
  /\ pc' = [pc EXCEPT ![i] = "input"]
  /\ UNCHANGED <<err, trace>>
  /\ UNCHANGED <<resumePath, browser, value, now, dirs, tmpFiles, outFiles,
                 made, wrote, unlinks>>
  /\ UNCHANGED pageVars
  /\ UNCHANGED nonPipeVars

\* if (typeof resume === 'string') { existsSync ... } else if (typeof resume
\* === 'object') { timestamp = Date.now(); resumePath = ... } else throw
\* (lines 22-32, 41-43).  Date.now() returns the value it returned last or,
\* when time has passed, a later one.
Input(i) ==
  /\ pc[i] = "input"
  /\ op[i] \in GenerateOps
  /\ CASE TypeOf(resume[i]) = "string" ->
            /\ IF InputExists(resume[i]) THEN Goto(i, "read") ELSE Throw(i, "NotFound")
            /\ UNCHANGED <<resumePath, now>>
       [] TypeOf(resume[i]) = "object" ->
            /\ \E timestamp \in Stamps :
                 /\ timestamp >= now
                 /\ now' = timestamp
                 /\ resumePath' = [resumePath EXCEPT ![i] = timestamp]
            /\ Goto(i, "tmp_exists")
       [] OTHER ->
            /\ Throw(i, "BadResume")
            /\ UNCHANGED <<resumePath, now>>
  /\ UNCHANGED <<op, resume, outputPath, browser, value, dirs, tmpFiles,
                 outFiles, made, wrote, unlinks>>
  /\ UNCHANGED pageVars
  /\ UNCHANGED nonPipeVars

\* Read with the parse error swallowed.
Read_NoParseError(i) ==
  /\ pc[i] = "read"
  /\ Goto(i, "render")
  /\ UNCHANGED <<op, resume, outputPath, resumePath, browser, value, now, dirs,
                 tmpFiles, outFiles, made, wrote, unlinks>>
  /\ UNCHANGED pageVars
  /\ UNCHANGED nonPipeVars

\* resumeData = JSON.parse(fs.readFileSync(resumePath, 'utf-8')) (line 28;
\* exportPDF line 12): readFileSync throws when there is no file (the fixed-
\* path scripts read without a check before), JSON.parse on text that is no
\* JSON.
Read(i) ==
  /\ pc[i] = "read"
  /\ IF ~InputExists(resume[i]) THEN Throw(i, "NotFound")
     ELSE IF InputParses(resume[i]) THEN Goto(i, "render")
     ELSE Throw(i, "ParseError")
  /\ UNCHANGED <<op, resume, outputPath, resumePath, browser, value, now, dirs,
                 tmpFiles, outFiles, made, wrote, unlinks>>
  /\ UNCHANGED pageVars
  /\ UNCHANGED nonPipeVars

\* if (!fs.existsSync(tmpDir)) (line 35).
TmpExists(i) ==
  /\ pc[i] = "tmp_exists"
  /\ Goto(i, IF dirs["tmp"] THEN "tmp_write" ELSE "tmp_mkdir")
  /\ UNCHANGED <<op, resume, outputPath, resumePath, browser, value, now, dirs,
                 tmpFiles, outFiles, made, wrote, unlinks>>
  /\ UNCHANGED pageVars
  /\ UNCHANGED nonPipeVars

\* fs.mkdirSync(tmpDir, { recursive: true }) (line 36): creates the directory
\* (no error if it exists by now), or fails (permissions).
TmpMkdir(i) ==
  /\ pc[i] = "tmp_mkdir"
  /\ \/ /\ dirs' = [dirs EXCEPT !["tmp"] = TRUE]
        /\ made' = [made EXCEPT ![i] = IF dirs["tmp"] THEN @ ELSE @ \cup {"tmp"}]
        /\ Goto(i, "tmp_write")
     \/ /\ ~dirs["tmp"]
        /\ Throw(i, "FsError")
        /\ UNCHANGED <<dirs, made>>
  /\ UNCHANGED <<op, resume, outputPath, resumePath, browser, value, now,
                 tmpFiles, outFiles, wrote, unlinks>>
  /\ UNCHANGED pageVars
  /\ UNCHANGED nonPipeVars

\* fs.writeFileSync(resumePath, JSON.stringify(resume, null, 2)) (line 39):
\* creates the file or replaces its content, or fails.
TmpWrite(i) ==
  /\ pc[i] = "tmp_write"
  /\ \/ /\ dirs["tmp"]
        /\ tmpFiles' = [tmpFiles EXCEPT ![resumePath[i]] = i]
        /\ wrote' = [wrote EXCEPT ![i] = TRUE]
        /\ Goto(i, "render")
     \/ /\ Throw(i, "FsError")
        /\ UNCHANGED <<tmpFiles, wrote>>
  /\ UNCHANGED <<op, resume, outputPath, resumePath, browser, value, now, dirs,
                 outFiles, made, unlinks>>
  /\ UNCHANGED pageVars
  /\ UNCHANGED nonPipeVars

\* const html = theme.render(resumeData) (line 46).
Render(i) ==
  /\ pc[i] = "render"
  /\ \/ Goto(i, "launch")
     \/ Throw(i, "RenderError")
  /\ UNCHANGED <<op, resume, outputPath, resumePath, browser, value, now, dirs,
                 tmpFiles, outFiles, made, wrote, unlinks>>
  /\ UNCHANGED pageVars
  /\ UNCHANGED nonPipeVars

\* A launch that is tried a second time when the first attempt fails.
Launch_Retry(i) ==
  /\ pc[i] = "launch"
  /\ \/ /\ browser' = [browser EXCEPT ![i] = "open"]
        /\ engine' = [engine EXCEPT ![i] = i]
        /\ Goto(i, "new_page")
     \/ /\ IF Executed(i, "launch") = 0
             THEN Goto(i, "launch")
             ELSE Throw(i, "ExportError")
        /\ UNCHANGED <<browser, engine>>
  /\ UNCHANGED <<op, resume, outputPath, resumePath, value, now, dirs,
                 tmpFiles, outFiles, made, wrote, unlinks>>
  /\ UNCHANGED <<usedBy, loaded, pdfOpts>>
  /\ UNCHANGED nonPipeVars

\* A launch that hands out the instance another invocation has open.
Launch_Shared(i) ==
  /\ pc[i] = "launch"
  /\ \/ /\ browser' = [browser EXCEPT ![i] = "open"]
        /\ engine' = [engine EXCEPT ![i] =
                        IF \E j \in Invs \ {i} : browser[j] = "open"
                          THEN CHOOSE j \in Invs \ {i} : browser[j] = "open"
                          ELSE i]
        /\ Goto(i, "new_page")
     \/ /\ Throw(i, "ExportError")
        /\ UNCHANGED <<browser, engine>>
  /\ UNCHANGED <<op, resume, outputPath, resumePath, value, now, dirs,
                 tmpFiles, outFiles, made, wrote, unlinks>>
  /\ UNCHANGED <<usedBy, loaded, pdfOpts>>
  /\ UNCHANGED nonPipeVars

\* const browser = await puppeteer.launch(...) (lines 49-58): a new engine
\* instance, named by the invocation that launched it.
Launch(i) ==
  /\ pc[i] = "launch"
  /\ \/ /\ browser' = [browser EXCEPT ![i] = "open"]
        /\ engine' = [engine EXCEPT ![i] = i]
        /\ Goto(i, "new_page")
     \/ /\ Throw(i, "ExportError")
        /\ UNCHANGED <<browser, engine>>
  /\ UNCHANGED <<op, resume, outputPath, resumePath, value, now, dirs,
                 tmpFiles, outFiles, made, wrote, unlinks>>
  /\ UNCHANGED <<usedBy, loaded, pdfOpts>>
  /\ UNCHANGED nonPipeVars

\* A call into the engine instance the browser constant holds (browser.newPage,
\* page.setContent, page.pdf, browser.close).
Use(i) == usedBy' = [usedBy EXCEPT ![engine[i]] = @ \cup {i}]

\* The new page handed to the header build with nothing loaded into it.
NewPage_NoLoad(i) ==
  /\ pc[i] = "new_page"
  /\ Use(i)
  /\ \/ Goto(i, "header")
     \/ Throw(i, "ExportError")
  /\ UNCHANGED <<op, resume, outputPath, resumePath, browser, value, now, dirs,
                 tmpFiles, outFiles, made, wrote, unlinks>>
  /\ UNCHANGED <<engine, loaded, pdfOpts>>
  /\ UNCHANGED nonPipeVars

\* const page = await browser.newPage() (line 60).
NewPage(i) ==
  /\ pc[i] = "new_page"
  /\ Use(i)
  /\ \/ Goto(i, "set_content")
     \/ Throw(i, "ExportError")
  /\ UNCHANGED <<op, resume, outputPath, resumePath, browser, value, now, dirs,
                 tmpFiles, outFiles, made, wrote, unlinks>>
  /\ UNCHANGED <<engine, loaded, pdfOpts>>
  /\ UNCHANGED nonPipeVars

\* The page load followed at once by the output directory test, the header
\* build left out.
SetContent_NoHeader(i) ==
  /\ pc[i] = "set_content"
  /\ Use(i)
  /\ loaded' = [loaded EXCEPT ![i] = IF HidesHeader(op[i]) THEN "hidden" ELSE "shown"]
  /\ \/ Goto(i, IF op[i] \in ExportOps THEN "pdf" ELSE "out_exists")
     \/ Throw(i, "ExportError")
  /\ UNCHANGED <<op, resume, outputPath, resumePath, browser, value, now, dirs,
                 tmpFiles, outFiles, made, wrote, unlinks>>
  /\ UNCHANGED <<engine, pdfOpts>>
  /\ UNCHANGED nonPipeVars

\* await page.setContent(htmlWithHiddenHeader, { waitUntil: 'networkidle0' })
\* (lines 63-68); generateResumePDFPlain and exportLegacy give it html as
\* rendered, and generateResumePDFPlain builds no header.
SetContent(i) ==
  /\ pc[i] = "set_content"
  /\ Use(i)
  /\ loaded' = [loaded EXCEPT ![i] = IF HidesHeader(op[i]) THEN "hidden" ELSE "shown"]
  /\ \/ Goto(i, IF op[i] = "generateResumePDFPlain" THEN "out_exists" ELSE "header")
     \/ Throw(i, "ExportError")
  /\ UNCHANGED <<op, resume, outputPath, resumePath, browser, value, now, dirs,
                 tmpFiles, outFiles, made, wrote, unlinks>>
  /\ UNCHANGED <<engine, pdfOpts>>
  /\ UNCHANGED nonPipeVars

\* Build header template from resume data (lines 70-98): the header
\* synthesizer below; it throws a TypeError on a profiles value that has no
\* find or on an entry that is null (exportLegacy: on a resume without
\* basics).
BuildHeader(i) ==
  /\ pc[i] = "header"
  /\ \/ Goto(i, IF op[i] \in ExportOps THEN "pdf" ELSE "out_exists")
     \/ Throw(i, "TypeError")
  /\ UNCHANGED <<op, resume, outputPath, resumePath, browser, value, now, dirs,
                 tmpFiles, outFiles, made, wrote, unlinks>>
  /\ UNCHANGED pageVars
  /\ UNCHANGED nonPipeVars

\* const outputDir = path.dirname(outputPath); if (!fs.existsSync(outputDir))
\* (lines 101-102); path.dirname throws a TypeError on undefined.
OutExists(i) ==
  /\ pc[i] = "out_exists"
  /\ IF outputPath[i] = Undefined THEN Throw(i, "TypeError")
     ELSE Goto(i, IF dirs["out"] THEN "pdf" ELSE "out_mkdir")
  /\ UNCHANGED <<op, resume, outputPath, resumePath, browser, value, now, dirs,
                 tmpFiles, outFiles, made, wrote, unlinks>>
  /\ UNCHANGED pageVars
  /\ UNCHANGED nonPipeVars

\* fs.mkdirSync(outputDir, { recursive: true }) (line 103).
OutMkdir(i) ==
  /\ pc[i] = "out_mkdir"
  /\ \/ /\ dirs' = [dirs EXCEPT !["out"] = TRUE]
        /\ made' = [made EXCEPT ![i] = IF dirs["out"] THEN @ ELSE @ \cup {"out"}]
        /\ Goto(i, "pdf")
     \/ /\ ~dirs["out"]
        /\ Throw(i, "FsError")
        /\ UNCHANGED <<dirs, made>>
  /\ UNCHANGED <<op, resume, outputPath, resumePath, browser, value, now,
                 tmpFiles, outFiles, wrote, unlinks>>
  /\ UNCHANGED pageVars
  /\ UNCHANGED nonPipeVars

\* Pdf without the path option: the bytes are not written.
Pdf_NoPath(i) ==
  /\ pc[i] = "pdf"
  /\ Use(i)
  /\ pdfOpts' = [pdfOpts EXCEPT ![i] = PdfOptions(op[i])]
  /\ \/ /\ dirs["out"]
        /\ Goto(i, "close")
     \/ Throw(i, "ExportError")
  /\ UNCHANGED <<op, resume, outputPath, resumePath, browser, value, now, dirs,
                 tmpFiles, outFiles, made, wrote, unlinks>>
  /\ UNCHANGED <<engine, loaded>>
  /\ UNCHANGED nonPipeVars

\* await page.pdf({ path: outputPath, ... }) (lines 107-129): paginates and
\* writes the bytes to outputPath, or fails (pagination, or the write: the
\* directory is missing or not writable) and leaves the path as it was.
Pdf(i) ==
  /\ pc[i] = "pdf"
  /\ Use(i)
  /\ pdfOpts' = [pdfOpts EXCEPT ![i] = PdfOptions(op[i])]
  /\ \/ /\ dirs["out"]
        /\ outFiles' = [outFiles EXCEPT ![outputPath[i]] = i]
        /\ Goto(i, "close")
     \/ /\ Throw(i, "ExportError")
        /\ UNCHANGED outFiles
  /\ UNCHANGED <<op, resume, outputPath, resumePath, browser, value, now, dirs,
                 tmpFiles, made, wrote, unlinks>>
  /\ UNCHANGED <<engine, loaded>>
  /\ UNCHANGED nonPipeVars

\* Close with the transient file removed when the close fails.
Close_DeleteOnFail(i) ==
  /\ pc[i] = "close"
  /\ Use(i)
  /\ \/ /\ browser' = [browser EXCEPT ![engine[i]] = "closed"]
        /\ IF op[i] \in ExportOps
             THEN Goto(i, "resolved")
             ELSE Goto(i, "cleanup")
        /\ UNCHANGED tmpFiles
     \/ /\ Throw(i, "ExportError")
        /\ tmpFiles' = [t \in Stamps |->
                          IF t = resumePath[i] THEN 0 ELSE tmpFiles[t]]
        /\ UNCHANGED browser
  /\ UNCHANGED <<op, resume, outputPath, resumePath, value, now, dirs,
                 outFiles, made, wrote, unlinks>>
  /\ UNCHANGED <<engine, loaded, pdfOpts>>
  /\ UNCHANGED nonPipeVars

\* await browser.close() (line 131); exportPDF returns after it (line 96).
Close(i) ==
  /\ pc[i] = "close"
  /\ Use(i)
  /\ \/ /\ browser' = [browser EXCEPT ![engine[i]] = "closed"]
        /\ IF op[i] \in ExportOps
             THEN Goto(i, "resolved")
             ELSE Goto(i, "cleanup")
     \/ /\ Throw(i, "ExportError")
        /\ UNCHANGED browser
  /\ UNCHANGED <<op, resume, outputPath, resumePath, value, now, dirs,
                 tmpFiles, outFiles, made, wrote, unlinks>>
  /\ UNCHANGED <<engine, loaded, pdfOpts>>
  /\ UNCHANGED nonPipeVars

\* return outputPath (lines 138-139): the promise resolves.
Return(i) ==
  /\ Goto(i, "resolved")
  /\ value' = [value EXCEPT ![i] = outputPath[i]]

\* fs.existsSync(resumePath) (line 134): resumePath is the caller's path when
\* resume is a string (line 24), the transient file otherwise (line 31).
ResumePathExists(i) ==
  IF TypeOf(resume[i]) = "string"
    THEN inputFiles[resume[i]] = "intact"
    ELSE tmpFiles[resumePath[i]] # 0

\* Cleanup with the typeof test left out: the file at resumePath is deleted
\* whenever it exists.
Cleanup_NoTypeTest(i) ==
  /\ pc[i] = "cleanup"
  /\ IF ResumePathExists(i)
       THEN Goto(i, "unlink") /\ UNCHANGED value
       ELSE Return(i)
  /\ UNCHANGED <<op, resume, outputPath, resumePath, browser, now, dirs,
                 tmpFiles, outFiles, made, wrote, unlinks>>
  /\ UNCHANGED pageVars
  /\ UNCHANGED nonPipeVars

\* Cleanup with the deletion left out.
Cleanup_NoDelete(i) ==
  /\ pc[i] = "cleanup"
  /\ Return(i)
  /\ UNCHANGED <<op, resume, outputPath, resumePath, browser, now, dirs,
                 tmpFiles, outFiles, made, wrote, unlinks>>
  /\ UNCHANGED pageVars
  /\ UNCHANGED nonPipeVars

\* if (typeof resume === 'object' && fs.existsSync(resumePath)) (line 134);
\* when the test is false the function returns.
Cleanup(i) ==
  /\ pc[i] = "cleanup"
  /\ IF TypeOf(resume[i]) = "object" /\ ResumePathExists(i)
       THEN Goto(i, "unlink") /\ UNCHANGED value
       ELSE Return(i)
  /\ UNCHANGED <<op, resume, outputPath, resumePath, browser, now, dirs,
                 tmpFiles, outFiles, made, wrote, unlinks>>
  /\ UNCHANGED pageVars
  /\ UNCHANGED nonPipeVars

\* fs.unlinkSync(resumePath) (line 135), then the function returns; the call
\* throws ENOENT when the file is gone by now.
Unlink(i) ==
  /\ pc[i] = "unlink"
  /\ IF ResumePathExists(i)
       THEN \/ /\ IF TypeOf(resume[i]) = "string"
                    THEN /\ inputFiles' = [inputFiles EXCEPT ![resume[i]] = "deleted"]
                         /\ UNCHANGED tmpFiles
                    ELSE /\ tmpFiles' = [tmpFiles EXCEPT ![resumePath[i]] = 0]
                         /\ UNCHANGED inputFiles
               /\ unlinks' = [unlinks EXCEPT ![i] = @ + 1]
               /\ Return(i)
            \/ /\ Throw(i, "FsError")
               /\ UNCHANGED <<tmpFiles, inputFiles, unlinks, value>>
       ELSE /\ Throw(i, "FsError")
            /\ UNCHANGED <<tmpFiles, inputFiles, unlinks, value>>
  /\ UNCHANGED <<op, resume, outputPath, resumePath, browser, now, dirs,
                 outFiles, made, wrote>>
  /\ UNCHANGED pageVars
  /\ UNCHANGED <<headerVars, cliVars, htmlVars>>

\* --------------------------------------------------------------- exportPDF
\* exportPDF(resumePath, outputPath) is started, each invocation by its own
\* process (export-pdf.js as extended for command-line arguments, lines 6,
\* 104-110).
CallExport(i) ==
  /\ pc[i] = "idle"
  /\ \E r \in {"path_valid", "path_invalid", "path_missing"}, o \in OutPaths :
       /\ resume' = [resume EXCEPT ![i] = r]
       /\ outputPath' = [outputPath EXCEPT ![i] = o]
  /\ op' = [op EXCEPT ![i] = "exportPDF"]
  /\ pc' = [pc EXCEPT ![i] = "input"]
  /\ UNCHANGED <<err, trace>>
  /\ UNCHANGED <<resumePath, browser, value, now, dirs, tmpFiles, outFiles,
                 made, wrote, unlinks>>
  /\ UNCHANGED pageVars
  /\ UNCHANGED nonPipeVars

\* exportPDF without the existence check.
ExportInput_NoCheck(i) ==
  /\ pc[i] = "input"
  /\ op[i] = "exportPDF"
  /\ Goto(i, "read")
  /\ UNCHANGED <<op, resume, outputPath, resumePath, browser, value, now, dirs,
                 tmpFiles, outFiles, made, wrote, unlinks>>
  /\ UNCHANGED pageVars
  /\ UNCHANGED nonPipeVars

\* if (!fs.existsSync(resumePath)) throw new Error('Resume file not found
\* at: ...') (lines 9-11).
ExportInput(i) ==
  /\ pc[i] = "input"
  /\ op[i] = "exportPDF"
  /\ IF InputExists(resume[i]) THEN Goto(i, "read") ELSE Throw(i, "NotFound")
  /\ UNCHANGED <<op, resume, outputPath, resumePath, browser, value, now, dirs,
                 tmpFiles, outFiles, made, wrote, unlinks>>
  /\ UNCHANGED pageVars
  /\ UNCHANGED nonPipeVars

\* -------------------------------------------------------- header synthesizer
\* const basics = resumeData.basics || {}; let contactInfo = '' (lines 71-72).
HBasics ==
  /\ hpc = "basics"
  /\ basics' = IF resumeData.hasBasics THEN resumeData.basics ELSE EmptyBasics
  /\ contactInfo' = <<>>
  /\ hpc' = "linkedin"
  /\ UNCHANGED <<resumeData, headerName, pdfMargin>>
  /\ UNCHANGED nonHeaderVars

\* // LinkedIn (lines 75-80): the link, then a divider.
HLinkedIn ==
  /\ hpc = "linkedin"
  /\ IF basics.hasProfiles
       THEN LET linkedin == Find(basics.profiles, "linkedin") IN
            IF linkedin.threw
              THEN hpc' = "threw" /\ UNCHANGED contactInfo
              ELSE /\ hpc' = "phone"
                   /\ contactInfo' =
                        IF linkedin.index # 0
                          THEN contactInfo \o
                               <<Segment("linkedin", Interpolate(basics.profiles[linkedin.index].url)),
                                 Divider>>
                          ELSE contactInfo
       ELSE hpc' = "phone" /\ UNCHANGED contactInfo
  /\ UNCHANGED <<resumeData, basics, headerName, pdfMargin>>
  /\ UNCHANGED nonHeaderVars

\* The phone block put in front of the strip instead of behind it.
HPhone_Prepend ==
  /\ hpc = "phone"
  /\ contactInfo' =
       IF Truthy(basics.phone)
         THEN <<Segment("phone", Interpolate(basics.phone)), Divider>> \o contactInfo
         ELSE contactInfo
  /\ hpc' = "email"
  /\ UNCHANGED <<resumeData, basics, headerName, pdfMargin>>
  /\ UNCHANGED nonHeaderVars

\* // Phone (lines 83-85): the phone number, then a divider.
HPhone ==
  /\ hpc = "phone"
  /\ contactInfo' =
       IF Truthy(basics.phone)
         THEN contactInfo \o <<Segment("phone", Interpolate(basics.phone)), Divider>>
         ELSE contactInfo
  /\ hpc' = "email"
  /\ UNCHANGED <<resumeData, basics, headerName, pdfMargin>>
  /\ UNCHANGED nonHeaderVars

\* // Email (lines 88-90): the mail link, no divider.
HEmail ==
  /\ hpc = "email"
  /\ contactInfo' =
       IF Truthy(basics.email)
         THEN contactInfo \o <<Segment("email", Interpolate(basics.email))>>
         ELSE contactInfo
  /\ hpc' = "github"
  /\ UNCHANGED <<resumeData, basics, headerName, pdfMargin>>
  /\ UNCHANGED nonHeaderVars

\* // GitHub (lines 93-98): a divider, then the link.
HGitHub ==
  /\ hpc = "github"
  /\ IF basics.hasProfiles
       THEN LET github == Find(basics.profiles, "github") IN
            IF github.threw
              THEN hpc' = "threw" /\ UNCHANGED contactInfo
              ELSE /\ hpc' = "template"
                   /\ contactInfo' =
                        IF github.index # 0
                          THEN contactInfo \o
                               <<Divider,
                                 Segment("github", Interpolate(basics.profiles[github.index].url))>>
                          ELSE contactInfo
       ELSE hpc' = "template" /\ UNCHANGED contactInfo
  /\ UNCHANGED <<resumeData, basics, headerName, pdfMargin>>
  /\ UNCHANGED nonHeaderVars

\* headerTemplate: <h1>${basics.name || ''}</h1> <div>${contactInfo}</div>
\* (lines 112-119), given to page.pdf with margin (lines 125-128).
HTemplate ==
  /\ hpc = "template"
  /\ headerName' = IF Truthy(basics.name) THEN Interpolate(basics.name) ELSE ""
  /\ pdfMargin' = PdfOptions("generateResumePDF").margin
  /\ hpc' = "done"
  /\ UNCHANGED <<resumeData, basics, contactInfo>>
  /\ UNCHANGED nonHeaderVars

\* The header of the first export script: headerTemplate: <span>
\* ${resumeData.basics.name} - Resume</span> and margin (export-pdf.js, lines
\* 35-50); reading .name of an absent basics throws a TypeError.
HLegacy ==
  /\ hpc = "legacy"
  /\ IF resumeData.hasBasics
       THEN /\ headerName' = Interpolate(resumeData.basics.name)
            /\ pdfMargin' = PdfOptions("exportLegacy").margin
            /\ hpc' = "legacy_done"
       ELSE /\ hpc' = "legacy_threw"
            /\ UNCHANGED <<headerName, pdfMargin>>
  /\ UNCHANGED <<resumeData, basics, contactInfo>>
  /\ UNCHANGED nonHeaderVars

\* ------------------------------------------------------------------ cli.js
\* The words of a command line: the options of cli.js, a word that is no
\* option, and paths.
HelpOptions == {"--help", "-h"}
InputOptions == {"--input", "-i"}
OutputOptions == {"--output", "-o"}
ValueOptions == InputOptions \cup OutputOptions \cup {"--tmp-dir"}
Words ==
  HelpOptions \cup ValueOptions \cup
  {"--bogus", "path_valid", "path_invalid", "path_missing", "a.pdf"}

\* The command lines: every word list in which the word after --output or -o,
\* if there is one, is a destination path.
CommandLines ==
  {a \in UNION {[1..n -> Words] : n \in 0..MaxArgs} :
     \A k \in 1..(Len(a) - 1) : a[k] \in OutputOptions => a[k + 1] \in OutPaths}

\* args[++i]: undefined past the end of the list.
ArgAt(a, k) == IF k \in DOMAIN a THEN a[k] ELSE Undefined

\* const options = { input: null, output: './resume.pdf', ... } (lines 33-37).
DefaultOptions == [input |-> Undefined, output |-> DefaultOutput]

CliIdle ==
  /\ args = <<>>
  /\ argi = 1
  /\ options = DefaultOptions
  /\ exitCode = -1
  /\ cpc = "idle"

\* process.exit(code)
Exit(code) ==
  /\ exitCode' = code
  /\ cpc' = "exited"

\* One iteration of for (let i = 0; i < args.length; i++) switch (args[i])
\* (lines 39-62).
CliArg ==
  /\ cpc = "parse"
  /\ IF argi > Len(args)
       THEN cpc' = "validate" /\ UNCHANGED <<argi, options, exitCode>>
     ELSE IF args[argi] \in HelpOptions
       THEN Exit(0) /\ UNCHANGED <<argi, options>>
     ELSE IF args[argi] \in InputOptions
       THEN /\ options' = [options EXCEPT !.input = ArgAt(args, argi + 1)]
            /\ argi' = argi + 2
            /\ UNCHANGED <<exitCode, cpc>>
     ELSE IF args[argi] \in OutputOptions
       THEN /\ options' = [options EXCEPT !.output = ArgAt(args, argi + 1)]
            /\ argi' = argi + 2
            /\ UNCHANGED <<exitCode, cpc>>
     ELSE IF args[argi] = "--tmp-dir"
       THEN /\ argi' = argi + 2
            /\ UNCHANGED <<options, exitCode, cpc>>
     ELSE Exit(1) /\ UNCHANGED <<argi, options>>
  /\ UNCHANGED args
  /\ UNCHANGED <<pipeVars, headerVars, htmlVars, inputVars>>

\* if (!options.input) { ...; process.exit(1) } (lines 65-69).
CliValidate ==
  /\ cpc = "validate"
  /\ IF Truthy(options.input)
       THEN cpc' = "exists" /\ UNCHANGED exitCode
       ELSE Exit(1)
  /\ UNCHANGED <<args, argi, options>>
  /\ UNCHANGED <<pipeVars, headerVars, htmlVars, inputVars>>

\* if (!fs.existsSync(options.input)) { ...; process.exit(1) } (lines 71-74).
CliExists ==
  /\ cpc = "exists"
  /\ IF InputExists(options.input)
       THEN cpc' = "run" /\ UNCHANGED exitCode
       ELSE Exit(1)
  /\ UNCHANGED <<args, argi, options>>
  /\ UNCHANGED <<pipeVars, headerVars, htmlVars, inputVars>>

\* generateResumePDF({ resume: options.input, outputPath: options.output,
\* tmpDir: options.tmpDir }) (lines 82-86): invocation 1 starts.
CliRun ==
  /\ cpc = "run"
  /\ cpc' = "await"
  /\ op' = [op EXCEPT ![1] = "generateResumePDF"]
  /\ resume' = [resume EXCEPT ![1] = options.input]
  /\ outputPath' = [outputPath EXCEPT ![1] = options.output]
  /\ pc' = [pc EXCEPT ![1] = "input"]
  /\ UNCHANGED <<args, argi, options, exitCode>>
  /\ UNCHANGED <<resumePath, browser, err, value, now, dirs, tmpFiles, outFiles,
                 made, wrote, unlinks, trace>>
  /\ UNCHANGED pageVars
  /\ UNCHANGED <<headerVars, htmlVars, inputVars>>

\* The await with the rejection ignored: the process ends with code 0.
CliSettle_IgnoreError ==
  /\ cpc = "await"
  /\ pc[1] \in {"resolved", "rejected"}
  /\ Exit(0)
  /\ UNCHANGED <<args, argi, options>>
  /\ UNCHANGED <<pipeVars, headerVars, htmlVars, inputVars>>

\* The await settles (lines 88-92): on a result the script runs to its end
\* and the process ends with code 0, on an error the catch calls
\* process.exit(1).
CliSettle ==
  /\ cpc = "await"
  /\ pc[1] \in {"resolved", "rejected"}
  /\ Exit(IF pc[1] = "resolved" THEN 0 ELSE 1)
  /\ UNCHANGED <<args, argi, options>>
  /\ UNCHANGED <<pipeVars, headerVars, htmlVars, inputVars>>

\* ------------------------------------------------------ generateResumeHTML
\* The resume documents HTML is generated from: basics absent, or basics with
\* name and email each absent or present.
HtmlDocs ==
  {[hasBasics |-> FALSE, basics |-> EmptyBasics]} \cup
  [hasBasics : {TRUE},
   basics : [name : Names, phone : {Undefined}, email : {Undefined, "jane@example.com"},
             hasProfiles : {FALSE}, profiles : {<<>>}]]

\* No document: the value of a variable nothing was assigned to.
NoDoc == [hasBasics |-> FALSE, basics |-> EmptyBasics]

\* The JSON text of a document (what the resume file holds): the key of each
\* field that is present, followed by its value.
JsonText(d) ==
  IF ~d.hasBasics THEN <<"{", "}">>
  ELSE <<"{", "basics">>
       \o (IF d.basics.name # Undefined THEN <<"name", d.basics.name>> ELSE <<>>)
       \o (IF d.basics.email # Undefined THEN <<"email", d.basics.email>> ELSE <<>>)
       \o <<"}">>

\* The value that follows a key in a JSON text, undefined without the key.
ValueOf(text, key) ==
  IF \E k \in DOMAIN text : text[k] = key
    THEN text[(CHOOSE k \in DOMAIN text : text[k] = key) + 1]
    ELSE Undefined

\* JSON.parse of the text of a resume file (line 114).
JsonParse(text) ==
  IF \E k \in DOMAIN text : text[k] = "basics"
    THEN [hasBasics |-> TRUE,
          basics |-> [name |-> ValueOf(text, "name"), phone |-> Undefined,
                      email |-> ValueOf(text, "email"),
                      hasProfiles |-> FALSE, profiles |-> <<>>]]
    ELSE [hasBasics |-> FALSE, basics |-> EmptyBasics]

\* theme.render(resumeData) (index.js): a pure function from the document to
\* a complete HTML document, missing values defaulted to the empty string.
ThemeRender(d) ==
  <<"<!doctype html>",
    IF d.hasBasics /\ d.basics.name # Undefined THEN d.basics.name ELSE "",
    IF d.hasBasics /\ d.basics.email # Undefined THEN d.basics.email ELSE "">>

NoHtml == <<>>

HtmlIdle ==
  /\ fileText = JsonText(NoDoc)
  /\ object = [i \in Invs |-> NoDoc]
  /\ data = [i \in Invs |-> NoDoc]
  /\ html = [i \in Invs |-> NoHtml]

\* A caller invokes generateResumeHTML(resume) (line 105).
CallHtml(i) ==
  /\ pc[i] = "idle"
  /\ \E r \in ResumeArgs :
       /\ resume' = [resume EXCEPT ![i] = r]
       /\ IF r = "object"
            THEN \E d \in HtmlDocs : object' = [object EXCEPT ![i] = d]
            ELSE UNCHANGED object
  /\ op' = [op EXCEPT ![i] = "generateResumeHTML"]
  /\ pc' = [pc EXCEPT ![i] = "html_input"]
  /\ UNCHANGED <<err, trace>>
  /\ UNCHANGED <<outputPath, resumePath, browser, value, now, dirs, tmpFiles,
                 outFiles, made, wrote, unlinks>>
  /\ UNCHANGED pageVars
  /\ UNCHANGED <<fileText, data, html>>
  /\ UNCHANGED <<headerVars, cliVars, inputVars>>

\* if (typeof resume === 'string') { existsSync ... } else if (typeof resume
\* === 'object') { resumeData = resume } else throw (lines 109-120).
HtmlInput(i) ==
  /\ pc[i] = "html_input"
  /\ CASE TypeOf(resume[i]) = "string" ->
            /\ IF InputExists(resume[i]) THEN Goto(i, "html_read") ELSE Throw(i, "NotFound")
            /\ UNCHANGED data
       [] TypeOf(resume[i]) = "object" ->
            /\ data' = [data EXCEPT ![i] = object[i]]
            /\ Goto(i, "html_render")
       [] OTHER ->
            /\ Throw(i, "BadResume")
            /\ UNCHANGED data
  /\ UNCHANGED <<op, resume, outputPath, resumePath, browser, value, now, dirs,
                 tmpFiles, outFiles, made, wrote, unlinks>>
  /\ UNCHANGED pageVars
  /\ UNCHANGED <<fileText, object, html>>
  /\ UNCHANGED <<headerVars, cliVars, inputVars>>

\* The read with the content of the file ignored.
HtmlRead_Ignore(i) ==
  /\ pc[i] = "html_read"
  /\ IF InputParses(resume[i])
       THEN data' = [data EXCEPT ![i] = NoDoc] /\ Goto(i, "html_render")
       ELSE Throw(i, "ParseError") /\ UNCHANGED data
  /\ UNCHANGED <<op, resume, outputPath, resumePath, browser, value, now, dirs,
                 tmpFiles, outFiles, made, wrote, unlinks>>
  /\ UNCHANGED pageVars
  /\ UNCHANGED <<fileText, object, html>>
  /\ UNCHANGED <<headerVars, cliVars, inputVars>>

\* resumeData = JSON.parse(fs.readFileSync(resume, 'utf-8')) (line 114).
HtmlRead(i) ==
  /\ pc[i] = "html_read"
  /\ IF InputParses(resume[i])
       THEN data' = [data EXCEPT ![i] = JsonParse(fileText)] /\ Goto(i, "html_render")
       ELSE Throw(i, "ParseError") /\ UNCHANGED data
  /\ UNCHANGED <<op, resume, outputPath, resumePath, browser, value, now, dirs,
                 tmpFiles, outFiles, made, wrote, unlinks>>
  /\ UNCHANGED pageVars
  /\ UNCHANGED <<fileText, object, html>>
  /\ UNCHANGED <<headerVars, cliVars, inputVars>>

\* return theme.render(resumeData) (line 122).
HtmlRender(i) ==
  /\ pc[i] = "html_render"
  /\ html' = [html EXCEPT ![i] = ThemeRender(data[i])]
  /\ Goto(i, "resolved")
  /\ UNCHANGED <<op, resume, outputPath, resumePath, browser, value, now, dirs,
                 tmpFiles, outFiles, made, wrote, unlinks>>
  /\ UNCHANGED pageVars
  /\ UNCHANGED <<fileText, object, data>>
  /\ UNCHANGED <<headerVars, cliVars, inputVars>>

\* ------------------------------------------------------------ specification
Init ==
  /\ PipeInit
  /\ dirs \in [{"tmp", "out"} -> BOOLEAN]
  /\ HeaderIdle
  /\ CliIdle
  /\ HtmlIdle

Next ==
  \/ \E i \in Invs : Call(i)
  \/ \E i \in Invs : Input(i)
  \/ \E i \in Invs : Read(i)
  \/ \E i \in Invs : TmpExists(i)
  \/ \E i \in Invs : TmpMkdir(i)
  \/ \E i \in Invs : TmpWrite(i)
  \/ \E i \in Invs : Render(i)
  \/ \E i \in Invs : Launch(i)
  \/ \E i \in Invs : NewPage(i)
  \/ \E i \in Invs : SetContent(i)
  \/ \E i \in Invs : BuildHeader(i)
  \/ \E i \in Invs : OutExists(i)
  \/ \E i \in Invs : OutMkdir(i)
  \/ \E i \in Invs : Pdf(i)
  \/ \E i \in Invs : Close(i)
  \/ \E i \in Invs : Cleanup(i)
  \/ \E i \in Invs : Unlink(i)

Spec == Init /\ [][Next]_vars

\* exportPDF, one process per invocation.
NextExport ==
  \/ \E i \in Invs : CallExport(i)
  \/ \E i \in Invs : ExportInput(i)
  \/ \E i \in Invs : Read(i)
  \/ \E i \in Invs : Render(i)
  \/ \E i \in Invs : Launch(i)
  \/ \E i \in Invs : NewPage(i)
  \/ \E i \in Invs : SetContent(i)
  \/ \E i \in Invs : BuildHeader(i)
  \/ \E i \in Invs : Pdf(i)
  \/ \E i \in Invs : Close(i)

SpecExport == Init /\ [][NextExport]_vars

\* The header synthesizer, and the header of the first export script, on
\* every resume of the bounded input set.
InitHeader ==
  /\ PipeInit
  /\ dirs = [d \in {"tmp", "out"} |-> TRUE]
  /\ hpc \in {"basics", "legacy"}
  /\ resumeData \in ResumeDatas
  /\ basics = EmptyBasics
  /\ contactInfo = <<>>
  /\ headerName = Undefined
  /\ pdfMargin = NoPdfOptions.margin
  /\ CliIdle
  /\ HtmlIdle

NextHeader ==
  \/ HBasics
  \/ HLinkedIn
  \/ HPhone
  \/ HEmail
  \/ HGitHub
  \/ HTemplate
  \/ HLegacy

SpecHeader == InitHeader /\ [][NextHeader]_vars

\* node cli.js on every command line of the bounded set.
InitCli ==
  /\ PipeInit
  /\ dirs \in [{"tmp", "out"} -> BOOLEAN]
  /\ HeaderIdle
  /\ args \in CommandLines
  /\ argi = 1
  /\ options = DefaultOptions
  /\ exitCode = -1
  /\ cpc = "parse"
  /\ HtmlIdle

NextCli ==
  \/ CliArg
  \/ CliValidate
  \/ CliExists
  \/ CliRun
  \/ Input(1)
  \/ Read(1)
  \/ Render(1)
  \/ Launch(1)
  \/ NewPage(1)
  \/ SetContent(1)
  \/ BuildHeader(1)
  \/ OutExists(1)
  \/ OutMkdir(1)
  \/ Pdf(1)
  \/ Close(1)
  \/ Cleanup(1)
  \/ CliSettle

SpecCli == InitCli /\ [][NextCli]_vars

\* generateResumeHTML, two calls, on every resume file of the bounded set.
InitHtml ==
  /\ PipeInit
  /\ dirs = [d \in {"tmp", "out"} |-> TRUE]
  /\ HeaderIdle
  /\ CliIdle
  /\ fileText \in {JsonText(d) : d \in HtmlDocs}
  /\ object = [i \in Invs |-> NoDoc]
  /\ data = [i \in Invs |-> NoDoc]
  /\ html = [i \in Invs |-> NoHtml]

NextHtml ==
  \/ \E i \in Invs : CallHtml(i)
  \/ \E i \in Invs : HtmlInput(i)
  \/ \E i \in Invs : HtmlRead(i)
  \/ \E i \in Invs : HtmlRender(i)

SpecHtml == InitHtml /\ [][NextHtml]_vars

\* The versions of the two files side by side: each of two processes runs one
\* of the five operations on ./resume.json (one file, of any of the three
\* kinds) and writes resume.pdf; the export scripts are called without
\* arguments, generateResumePDF with these two paths.
AllOps == GenerateOps \cup ExportOps

\* The first statement of an operation: the fixed-path scripts begin with the
\* read, the others with the test of their input.
FirstStatement(o) == IF o \in {"exportScript", "exportLegacy"} THEN "read" ELSE "input"

InitVersions ==
  /\ op \in [Invs -> AllOps]
  /\ pc = [i \in Invs |-> FirstStatement(op[i])]
  /\ \E r \in {"path_valid", "path_invalid", "path_missing"} :
       resume = [i \in Invs |-> r]
  /\ outputPath = [i \in Invs |-> DefaultOutput]
  /\ resumePath = [i \in Invs |-> 0]
  /\ browser = [i \in Invs |-> "none"]
  /\ err = [i \in Invs |-> ""]
  /\ value = [i \in Invs |-> Undefined]
  /\ now = 1
  /\ dirs \in [{"tmp", "out"} -> BOOLEAN]
  /\ tmpFiles = [t \in Stamps |-> 0]
  /\ outFiles = [p \in Paths |-> 0]
  /\ made = [i \in Invs |-> {}]
  /\ wrote = [i \in Invs |-> FALSE]
  /\ unlinks = [i \in Invs |-> 0]
  /\ trace = [i \in Invs |-> <<>>]
  /\ engine = [i \in Invs |-> 0]
  /\ usedBy = [e \in Invs |-> {}]
  /\ loaded = [i \in Invs |-> "none"]
  /\ pdfOpts = [i \in Invs |-> NoPdfOptions]
  /\ inputFiles = [r \in InputPaths |-> GivenFile(r)]
  /\ HeaderIdle
  /\ CliIdle
  /\ HtmlIdle

NextVersions ==
  \/ \E i \in Invs : Input(i)
  \/ \E i \in Invs : ExportInput(i)
  \/ \E i \in Invs : Read(i)
  \/ \E i \in Invs : Render(i)
  \/ \E i \in Invs : Launch(i)
  \/ \E i \in Invs : NewPage(i)
  \/ \E i \in Invs : SetContent(i)
  \/ \E i \in Invs : BuildHeader(i)
  \/ \E i \in Invs : OutExists(i)
  \/ \E i \in Invs : OutMkdir(i)
  \/ \E i \in Invs : Pdf(i)
  \/ \E i \in Invs : Close(i)
  \/ \E i \in Invs : Cleanup(i)

SpecVersions == InitVersions /\ [][NextVersions]_vars

\* generateResumePDF on every resume that is no path.
NextValues ==
  \/ \E i \in Invs : CallValue(i)
  \/ \E i \in Invs : Input(i)
  \/ \E i \in Invs : TmpExists(i)
  \/ \E i \in Invs : TmpMkdir(i)
  \/ \E i \in Invs : TmpWrite(i)
  \/ \E i \in Invs : Render(i)
  \/ \E i \in Invs : Launch(i)
  \/ \E i \in Invs : NewPage(i)
  \/ \E i \in Invs : SetContent(i)
  \/ \E i \in Invs : BuildHeader(i)
  \/ \E i \in Invs : OutExists(i)
  \/ \E i \in Invs : OutMkdir(i)
  \/ \E i \in Invs : Pdf(i)
  \/ \E i \in Invs : Close(i)
  \/ \E i \in Invs : Cleanup(i)
  \/ \E i \in Invs : Unlink(i)

SpecValues == Init /\ [][NextValues]_vars

\* The programmatic surface of generate-resume.js: each of the two callers
\* invokes generateResumePDF or generateResumeHTML.
NextApi ==
  \/ \E i \in Invs : Call(i)
  \/ \E i \in Invs : Input(i)
  \/ \E i \in Invs : Read(i)
  \/ \E i \in Invs : TmpExists(i)
  \/ \E i \in Invs : TmpMkdir(i)
  \/ \E i \in Invs : TmpWrite(i)
  \/ \E i \in Invs : Render(i)
  \/ \E i \in Invs : Launch(i)
  \/ \E i \in Invs : NewPage(i)
  \/ \E i \in Invs : SetContent(i)
  \/ \E i \in Invs : BuildHeader(i)
  \/ \E i \in Invs : OutExists(i)
  \/ \E i \in Invs : OutMkdir(i)
  \/ \E i \in Invs : Pdf(i)
  \/ \E i \in Invs : Close(i)
  \/ \E i \in Invs : Cleanup(i)
  \/ \E i \in Invs : Unlink(i)
  \/ \E i \in Invs : CallHtml(i)
  \/ \E i \in Invs : HtmlInput(i)
  \/ \E i \in Invs : HtmlRead(i)
  \/ \E i \in Invs : HtmlRender(i)

SpecApi == Init /\ [][NextApi]_vars

\* ------------------------------------------- properties of the pipeline
Generate(i) == op[i] = "generateResumePDF"
ObjectForm(i) == Generate(i) /\ TypeOf(resume[i]) = "object"
PathForm(i) == Generate(i) /\ TypeOf(resume[i]) = "string"

\* C1: in every execution in which the engine was launched, the engine
\* instance is closed when the operation has finished, on the success path
\* and on every failure path.
C1_EngineClosedWhenFinished ==
  \A i \in Invs :
    (pc[i] \in Finished /\ browser[i] # "none") => browser[i] = "closed"

\* C2: when an invocation given an in-memory object has finished, resolved
\* or rejected, the transient file it created no longer exists and was
\* deleted exactly once.
C2_TransientDeletedOnEveryExit ==
  \A i \in Invs :
    (pc[i] \in Finished /\ ObjectForm(i) /\ wrote[i]) =>
      (tmpFiles[resumePath[i]] # i /\ unlinks[i] = 1)

\* C3: at the step in which an invocation given an in-memory object
\* resolves, no file exists at its transient path and its engine is closed
\* (the deletion comes after the close and before the return).
C3_NoTransientAtResolve ==
  [][\A i \in Invs :
       (pc[i] # "resolved" /\ pc'[i] = "resolved" /\ ObjectForm(i)) =>
         (tmpFiles'[resumePath[i]] = 0 /\ browser'[i] = "closed")]_vars

C3_Witness ==
  \E i \in Invs :
    pc[i] = "resolved" /\ ObjectForm(i) /\ wrote[i] /\ unlinks[i] = 1

\* C4: two invocations given in-memory objects (and the same tmpDir) that are
\* in flight together have computed different transient file paths.
C4_DistinctTransientPaths ==
  \A i, j \in Invs :
    (i # j /\ InFlight(i) /\ InFlight(j) /\ resumePath[i] # 0 /\ resumePath[j] # 0)
      => resumePath[i] # resumePath[j]

\* C5: no step of one invocation overwrites or deletes a transient file
\* written by another invocation that is still in flight: such a file
\* changes only in a step of its writer.
C5_NoInterference ==
  [][\A t \in Stamps :
       (tmpFiles[t] # 0 /\ InFlight(tmpFiles[t]) /\ tmpFiles'[t] # tmpFiles[t])
         => pc'[tmpFiles[t]] # pc[tmpFiles[t]]]_vars

\* C6: generateResumePDF given a path to no file rejects with the not-found
\* error, given a path to unparseable content with the parse error; in both
\* cases no engine was launched and the invocation created no destination
\* file, no directory and no transient file.
C6_BadPathRejectsEarly ==
  \A i \in Invs :
    (Generate(i) /\ pc[i] \in Finished /\ resume[i] \in {"path_missing", "path_invalid"}) =>
      /\ pc[i] = "rejected"
      /\ err[i] = (IF resume[i] = "path_missing" THEN "NotFound" ELSE "ParseError")
      /\ browser[i] = "none"
      /\ made[i] = {}
      /\ ~wrote[i]
      /\ \A t \in Stamps : tmpFiles[t] # i
      /\ \A p \in OutPaths : outFiles[p] # i

C6_Witness ==
  \E i, j \in Invs :
    /\ resume[i] = "path_missing" /\ pc[i] = "rejected" /\ err[i] = "NotFound"
    /\ resume[j] = "path_invalid" /\ pc[j] = "rejected" /\ err[j] = "ParseError"

\* C7 as stated: whenever generateResumePDF has resolved, the resolved value
\* is outputPath, the directory of outputPath exists and the PDF at
\* outputPath is the one this invocation wrote.
C7_ResolvedOwnPdf ==
  \A i \in Invs :
    (Generate(i) /\ pc[i] = "resolved") =>
      /\ value[i] = outputPath[i]
      /\ dirs["out"]
      /\ outFiles[outputPath[i]] = i

\* C7 as amended: whenever generateResumePDF has resolved, for path-form and
\* object-form input, the resolved value is outputPath, the directory of
\* outputPath exists and a PDF exists at outputPath: the one this invocation
\* wrote, or the one another invocation given the same outputPath wrote.
C7_ResolvedPdfExists ==
  \A i \in Invs :
    (Generate(i) /\ pc[i] = "resolved") =>
      /\ value[i] = outputPath[i]
      /\ dirs["out"]
      /\ \/ outFiles[outputPath[i]] = i
         \/ \E j \in Invs \ {i} :
              outFiles[outputPath[i]] = j /\ outputPath[j] = outputPath[i]

C7_Witness ==
  \E i, j \in Invs :
    /\ pc[i] = "resolved" /\ PathForm(i) /\ "out" \in made[i]
    /\ outFiles[outputPath[i]] = i
    /\ pc[j] = "resolved" /\ ObjectForm(j) /\ outFiles[outputPath[j]] = j

\* --------------------------------- properties of the header synthesizer
\* The basics value the synthesizer is given.
GivenBasics == IF resumeData.hasBasics THEN resumeData.basics ELSE EmptyBasics

\* basics.profiles holds an entry of the designated network.
HasNetwork(target) ==
  /\ GivenBasics.hasProfiles
  /\ \E k \in DOMAIN GivenBasics.profiles :
       LET p == GivenBasics.profiles[k] IN
         ~p.isNull /\ Truthy(p.network) /\ ToLowerCase(p.network) = target

\* The contact segments the resume has.
SegmentPresent(kind) ==
  CASE kind = "linkedin" -> HasNetwork("linkedin")
    [] kind = "phone" -> Truthy(GivenBasics.phone)
    [] kind = "email" -> Truthy(GivenBasics.email)
    [] kind = "github" -> HasNetwork("github")

PriorityOrder == <<"linkedin", "phone", "email", "github">>
PresentInOrder == SelectSeq(PriorityOrder, SegmentPresent)

IsSegment(piece) == piece.kind # "divider"
IsDivider(piece) == piece.kind = "divider"
KindsOf(strip) == [k \in DOMAIN strip |-> strip[k].kind]

\* C8: the segments of the finished contact strip are the present ones in
\* the order LinkedIn link, phone, email, GitHub link, whatever the order of
\* the entries of basics.profiles.
C8_SegmentsInPriorityOrder ==
  hpc = "done" => KindsOf(SelectSeq(contactInfo, IsSegment)) = PresentInOrder

C8_Witness ==
  /\ hpc = "done"
  /\ PresentInOrder = PriorityOrder
  /\ Len(GivenBasics.profiles) = 2
  /\ ~GivenBasics.profiles[1].isNull
  /\ ToLowerCase(GivenBasics.profiles[1].network) = "github"
  /\ ToLowerCase(GivenBasics.profiles[2].network) = "linkedin"

\* C9: for every presence combination of the four segments the finished
\* contact strip neither begins nor ends with a divider, and with no
\* segment present it holds no divider.
C9_NoDividerAtTheEnds ==
  hpc = "done" =>
    /\ contactInfo # <<>> =>
         (IsSegment(contactInfo[1]) /\ IsSegment(contactInfo[Len(contactInfo)]))
    /\ PresentInOrder = <<>> => SelectSeq(contactInfo, IsDivider) = <<>>

\* C10: a finished contact strip of k >= 1 present segments holds exactly
\* k-1 dividers, one between each two consecutive segments: segments and
\* dividers alternate.
C10_OneDividerBetweenSegments ==
  (hpc = "done" /\ PresentInOrder # <<>>) =>
    /\ Len(SelectSeq(contactInfo, IsDivider)) = Len(PresentInOrder) - 1
    /\ \A k \in DOMAIN contactInfo :
         IF k % 2 = 1 THEN IsSegment(contactInfo[k]) ELSE IsDivider(contactInfo[k])

\* The header build has ended: with the fragment, or by throwing.
HeaderBuilt == hpc \in {"done", "legacy_done"}
HeaderThrew == hpc \in {"threw", "legacy_threw"}

\* The margin the operation passes to page.pdf for a resume with full basics.
FullBasicsMargin ==
  IF hpc \in {"legacy", "legacy_done", "legacy_threw"}
    THEN PdfOptions("exportLegacy").margin
    ELSE PdfOptions("generateResumePDF").margin

\* C11: for a resume with no basics field every PDF export operation builds
\* the header fragment without throwing, with an empty name and an empty
\* contact strip, and passes pagination the margins it passes for a resume
\* with full basics.
C11_NoBasicsEmptyHeader ==
  ~resumeData.hasBasics =>
    /\ ~HeaderThrew
    /\ HeaderBuilt =>
         (headerName = "" /\ contactInfo = <<>> /\ pdfMargin = FullBasicsMargin)

\* No entry of basics.profiles is null: fields are absent, entries are not.
NoNullEntry ==
  \A k \in DOMAIN GivenBasics.profiles : ~GivenBasics.profiles[k].isNull

\* The text an absent value is to leave in the fragment: none.
OrEmpty(v) == IF v = Undefined THEN "" ELSE v

\* The url of the entry of basics.profiles the synthesizer picks for a
\* designated network.
PickedUrl(target) ==
  GivenBasics.profiles[Find(GivenBasics.profiles, target).index].url

\* The text of the segment of a kind in a strip.
TextOf(strip, kind) ==
  LET ofKind(piece) == piece.kind = kind IN SelectSeq(strip, ofKind)[1].text

\* C12: for every basics value in which any subset of name, email, phone,
\* profiles, or an entry's network or url is absent, header synthesis does
\* not throw and each absent value appears in the fragment as the empty
\* string (an absent profiles list behaves as the empty list).
C12_AbsentValuesAreEmpty ==
  NoNullEntry =>
    /\ hpc # "threw"
    /\ hpc = "done" =>
         /\ headerName = OrEmpty(GivenBasics.name)
         /\ ~GivenBasics.hasProfiles =>
              (~HasNetwork("linkedin") /\ ~HasNetwork("github"))
         /\ \A target \in {"linkedin", "github"} :
              HasNetwork(target) =>
                TextOf(contactInfo, target) = OrEmpty(PickedUrl(target))

\* Entry k of basics.profiles names the designated network, ignoring case.
Matches(k, target) ==
  LET p == GivenBasics.profiles[k] IN
    ~p.isNull /\ Truthy(p.network) /\ ToLowerCase(p.network) = target

\* The position of the first-listed entry of the designated network.
FirstMatch(target) ==
  CHOOSE k \in DOMAIN GivenBasics.profiles :
    Matches(k, target) /\ \A j \in 1..(k - 1) : ~Matches(j, target)

\* The segments of a kind in a strip.
SegmentsOf(strip, kind) ==
  LET ofKind(piece) == piece.kind = kind IN SelectSeq(strip, ofKind)

\* C13: for each designated network (LinkedIn, GitHub) the finished header
\* holds one link, to the url of the first entry of basics.profiles whose
\* network equals the designated name ignoring case; later matching entries,
\* whatever their letter case, do not affect the fragment.
C13_FirstMatchWins ==
  hpc = "done" =>
    \A target \in {"linkedin", "github"} :
      HasNetwork(target) =>
        SegmentsOf(contactInfo, target) =
          <<Segment(target, Interpolate(GivenBasics.profiles[FirstMatch(target)].url))>>

C13_Witness ==
  /\ hpc = "done"
  /\ Len(GivenBasics.profiles) = 2
  /\ GivenBasics.profiles[1] = [isNull |-> FALSE, network |-> "LinkedIn", url |-> "https://u1"]
  /\ GivenBasics.profiles[2] = [isNull |-> FALSE, network |-> "linkedin", url |-> "https://u2"]
  /\ SegmentsOf(contactInfo, "linkedin") = <<Segment("linkedin", "https://u1")>>

\* ------------------------------------------------ properties of cli.js
\* What the option loop meets first from word k on: the help option, a word
\* that is no option, or the end of the command line.
RECURSIVE Scan(_, _)
Scan(a, k) ==
  IF k > Len(a) THEN "end"
  ELSE IF a[k] \in HelpOptions THEN "help"
  ELSE IF a[k] \in ValueOptions THEN Scan(a, k + 2)
  ELSE "unknown"

\* C14 as stated: the command-line run exits with code 0 exactly when PDF
\* generation succeeded, and with code 1 otherwise.
C14_ExitZeroIffGenerated ==
  cpc = "exited" =>
    /\ exitCode \in {0, 1}
    /\ exitCode = 0 <=> pc[1] = "resolved"

\* C14 as amended: the command-line run exits with code 0 exactly when PDF
\* generation succeeded or the help option was met before any unknown
\* option, and with code 1 on every failure: unknown option, missing
\* --input, input file not found, and every rejection of generateResumePDF
\* (parse error, render error, export error).
C14_ExitZeroIffGeneratedOrHelp ==
  cpc = "exited" =>
    /\ exitCode \in {0, 1}
    /\ exitCode = 0 <=> (pc[1] = "resolved" \/ Scan(args, 1) = "help")
    /\ Scan(args, 1) = "unknown" => exitCode = 1
    /\ (Scan(args, 1) = "end" /\ ~InputExists(options.input)) => exitCode = 1
    /\ pc[1] = "rejected" => exitCode = 1

C14_Witness ==
  /\ cpc = "exited"
  /\ exitCode = 0
  /\ pc[1] = "resolved"
  /\ options.output = "a.pdf"
  /\ outFiles["a.pdf"] = 1

\* ------------------------------- properties of the programmatic surface
\* The operations other code calls: module.exports of generate-resume.js and
\* of export-pdf.js.
ProgrammaticOps ==
  {"generateResumePDF", "generateResumePDFPlain", "generateResumeHTML", "exportPDF"}

\* C15: every failure inside a programmatic operation reaches the caller as
\* a rejection carrying the error; the operation never ends the process.
C15_FailuresReachCaller ==
  \A i \in Invs :
    op[i] \in ProgrammaticOps =>
      /\ pc[i] # "exited"
      /\ err[i] # "" => pc[i] = "rejected"

\* ------------------------------------ properties of generateResumeHTML
\* The resume data a call was given: the object, or what parsing the file at
\* the path gives.
GivenData(i) ==
  IF TypeOf(resume[i]) = "string" THEN JsonParse(fileText) ELSE object[i]

Returned(i) == op[i] = "generateResumeHTML" /\ pc[i] = "resolved"

C17_OwnEngineOnly ==
  /\ \A i \in Invs :
       /\ Executed(i, "launch") <= 1
       /\ engine[i] \in {0, i}
       /\ engine[i] = i => Executed(i, "launch") = 1
       /\ browser[i] = "closed" => Executed(i, "close") = 1
  /\ \A e \in Invs : usedBy[e] \subseteq {e}

C17_Witness ==
  \E i, j \in Invs :
    /\ i # j
    /\ pc[i] = "close" /\ browser[i] = "open" /\ usedBy[i] = {i}
    /\ pc[j] = "resolved" /\ browser[j] = "closed" /\ usedBy[j] = {j}
    /\ Executed(j, "set_content") = 1 /\ Executed(j, "pdf") = 1

\* ------------------------------------- properties of the export scripts
\* The statement at which the engine, the renderer or the header build
\* failed invocation i, "none" if none did: what the environment did to it.
FailedAt(i) ==
  IF err[i] \in {"RenderError", "ExportError", "TypeError"}
    THEN trace[i][Len(trace[i])]
    ELSE "none"

\* Invocation i ran exportPDF with its default arguments, invocation j the
\* fixed-path script, both have ended, and the environment treated both alike.
Compared(i, j) ==
  /\ op[i] = "exportPDF" /\ op[j] = "exportScript"
  /\ pc[i] \in Finished /\ pc[j] \in Finished
  /\ FailedAt(i) = FailedAt(j)

\* C18 as stated: exportPDF with its default arguments performs the same
\* sequence of external operations, with the same document and the same
\* pagination options, and ends with the same outcome as the fixed-path
\* script.
C18_SameOperations ==
  \A i, j \in Invs :
    Compared(i, j) =>
      /\ trace[i] = trace[j]
      /\ loaded[i] = loaded[j] /\ pdfOpts[i] = pdfOpts[j]
      /\ pc[i] = pc[j]

\* C18 as amended: exportPDF with its default arguments first tests that
\* ./resume.json exists, which the fixed-path script does not; if the file
\* exists it then performs the operations of the script in the same order,
\* with the same document and pagination options; if not it ends after the
\* test where the script ends in the read; the outcome (success, or exit
\* code 1) is the same.
C18_SameOperationsAfterCheck ==
  \A i, j \in Invs :
    Compared(i, j) =>
      /\ IF InputExists(resume[i])
           THEN trace[i] = <<"input">> \o trace[j]
           ELSE trace[i] = <<"input">> /\ trace[j] = <<"read">>
      /\ loaded[i] = loaded[j] /\ pdfOpts[i] = pdfOpts[j]
      /\ pc[i] = pc[j]
      /\ pc[i] = "exited" <=> err[i] # ""

C18_Witness ==
  \E i, j \in Invs :
    /\ Compared(i, j)
    /\ pc[i] = "resolved" /\ pc[j] = "resolved"
    /\ loaded[i] = "hidden" /\ pdfOpts[j].displayHeaderFooter
    /\ trace[j] = <<"read", "render", "launch", "new_page", "set_content",
                    "header", "pdf", "close">>

\* ------------------------------------------------ properties of the stages
\* The stage a statement belongs to: 1 Loader (input test, read, transient
\* file), 2 Renderer, 3 Synthesizer (header build), 4 Exporter (engine launch,
\* page, load, output directory, pagination, close), 5 Cleanup.
StageOf(statement) ==
  CASE statement \in {"input", "read", "tmp_exists", "tmp_mkdir", "tmp_write"} -> 1
    [] statement = "render" -> 2
    [] statement = "header" -> 3
    [] statement \in {"launch", "new_page", "set_content", "out_exists",
                      "out_mkdir", "pdf", "close"} -> 4
    [] statement \in {"cleanup", "unlink"} -> 5

\* The order the statements are written in: the Exporter's launch and load
\* (3) come before the Synthesizer (4), its pagination and close (5) after.
StepOf(statement) ==
  CASE statement \in {"input", "read", "tmp_exists", "tmp_mkdir", "tmp_write"} -> 1
    [] statement = "render" -> 2
    [] statement \in {"launch", "new_page", "set_content"} -> 3
    [] statement = "header" -> 4
    [] statement \in {"out_exists", "out_mkdir", "pdf", "close"} -> 5
    [] statement \in {"cleanup", "unlink"} -> 6

\* The statements of invocation i so far, the one it executes next included.
Statements(i) ==
  IF InFlight(i) THEN Append(trace[i], pc[i]) ELSE trace[i]

\* Statement a was executed, and to its end, before statement b began.
Before(i, a, b) ==
  LET s == Statements(i) IN
    \E k \in DOMAIN s : s[k] = a /\ \A m \in 1..k : s[m] # b

Reached(i, statement) ==
  LET s == Statements(i) IN \E k \in DOMAIN s : s[k] = statement

\* C19 as stated: each invocation executes its stages in the order Loader,
\* Renderer, Synthesizer, Exporter, Cleanup, no stage starting before the
\* previous one has finished, and the header fragment is built before the
\* first Exporter step (the engine launch).
C19_StagesInOrder ==
  \A i \in Invs :
    /\ LET s == Statements(i) IN
         \A k \in 1..(Len(s) - 1) : StageOf(s[k]) <= StageOf(s[k + 1])
    /\ Reached(i, "new_page") => Before(i, "header", "launch")

\* C19 as amended: each invocation executes Loader, Renderer, the Exporter's
\* engine launch and page load, Synthesizer, the Exporter's pagination and
\* close, Cleanup, in this order and none starting before the previous one
\* has finished; the header fragment is built after the page load and
\* before pagination.
C19_StepsInOrder ==
  \A i \in Invs :
    /\ LET s == Statements(i) IN
         \A k \in 1..(Len(s) - 1) : StepOf(s[k]) <= StepOf(s[k + 1])
    /\ Reached(i, "header") => Before(i, "set_content", "header")
    /\ Reached(i, "pdf") => Before(i, "header", "pdf")
    /\ Reached(i, "launch") => Before(i, "render", "launch")
    /\ Reached(i, "cleanup") => Before(i, "close", "cleanup")

C19_Witness ==
  \E i \in Invs :
    /\ ObjectForm(i)
    /\ pc[i] = "resolved"
    /\ trace[i] = <<"input", "tmp_exists", "tmp_mkdir", "tmp_write", "render",
                    "launch", "new_page", "set_content", "header",
                    "out_exists", "out_mkdir", "pdf", "close", "cleanup", "unlink">>

\* --------------------------------------- properties of the visible header
\* Invocation i has called page.pdf.
Paginated(i) == pdfOpts[i] # NoPdfOptions

\* The visible header sources of the export of invocation i: the header of
\* the loaded document unless suppressed, the band if enabled.
HeaderSources(i) ==
  (IF loaded[i] = "shown" THEN {"document"} ELSE {}) \cup
  (IF pdfOpts[i].displayHeaderFooter THEN {"band"} ELSE {})

\* C20: every PDF export loads the rendered HTML with the in-document header
\* suppressed and enables the repeating header band, so that exactly one
\* visible header source exists: the band.
C20_BandIsTheOnlyHeader ==
  \A i \in Invs :
    Paginated(i) =>
      /\ loaded[i] = "hidden"
      /\ pdfOpts[i].displayHeaderFooter
      /\ HeaderSources(i) = {"band"}

\* ------------------------------------ properties of the destination path
\* C21: in every PDF export operation (generateResumePDF and exportPDF) the
\* destination directory is created when missing, before the step that
\* writes the PDF bytes: when an invocation is about to call page.pdf, or
\* has called it, the directory of its destination path exists.
C21_DirectoryBeforeWrite ==
  \A i \in Invs :
    (pc[i] = "pdf" \/ Executed(i, "pdf") > 0) => dirs["out"]

\* ------------------------------- properties of the transient file on failure
\* generateResumePDF given an object rejected after it wrote its transient
\* file.
RejectedAfterWrite(i) == ObjectForm(i) /\ pc[i] = "rejected" /\ wrote[i]

\* The statement that threw in a rejected invocation.
ThrewAt(i) == trace[i][Len(trace[i])]

\* C22 as stated: in every execution of generateResumePDF that rejects after
\* the transient file was written, no deletion of that file has been
\* attempted and the file still exists when the operation rejects.
C22_NoDeletionOnFailure ==
  \A i \in Invs :
    RejectedAfterWrite(i) =>
      /\ Executed(i, "unlink") = 0
      /\ tmpFiles[resumePath[i]] # 0

\* C22 as amended: an invocation of generateResumePDF that rejects after the
\* transient file was written has deleted nothing, and has attempted the
\* deletion only if the deletion itself is what failed; the file still
\* exists at its path unless another invocation that computed the same
\* transient path has deleted it.
C22_NoDeletionUnlessItFailed ==
  \A i \in Invs :
    RejectedAfterWrite(i) =>
      /\ unlinks[i] = 0
      /\ Executed(i, "unlink") > 0 => (Executed(i, "unlink") = 1 /\ ThrewAt(i) = "unlink")
      /\ \/ tmpFiles[resumePath[i]] # 0
         \/ \E j \in Invs \ {i} : resumePath[j] = resumePath[i] /\ unlinks[j] > 0

C22_Witness ==
  \E i \in Invs :
    /\ RejectedAfterWrite(i)
    /\ ThrewAt(i) = "pdf"
    /\ tmpFiles[resumePath[i]] = i
    /\ browser[i] = "open"

\* ---------------------------------------------- properties of the page load
\* Invocation i has begun page.pdf: it is at the call or past it.
PdfBegun(i) == pc[i] = "pdf" \/ Executed(i, "pdf") > 0

\* await page.setContent(..., { waitUntil: 'networkidle0' }) threw in
\* invocation i.
LoadFailed(i) == pc[i] \in Finished /\ err[i] # "" /\ ThrewAt(i) = "set_content"

\* C23: page.pdf starts only after setContent with waitUntil network idle
\* has finished successfully, and is not called at all if that step fails.
C23_PaginationAfterLoad ==
  \A i \in Invs :
    /\ PdfBegun(i) =>
         /\ Executed(i, "set_content") = 1
         /\ Before(i, "set_content", "pdf")
         /\ loaded[i] # "none"
         /\ ~LoadFailed(i)
    /\ LoadFailed(i) => (Executed(i, "pdf") = 0 /\ pdfOpts[i] = NoPdfOptions)

C23_Witness ==
  \E i, j \in Invs :
    /\ pc[i] = "resolved" /\ Generate(i)
    /\ Before(i, "set_content", "pdf") /\ Executed(i, "pdf") = 1
    /\ LoadFailed(j) /\ Executed(j, "pdf") = 0

\* ------------------------------------------------------ properties of retries
\* The external operations of the pipeline: the input file read, the engine
\* launch, the PDF write.
ExternalOperations == {"read", "launch", "pdf"}

\* C24: no operation is retried: within one invocation of generateResumePDF
\* the input file read, the engine launch and the PDF write are each
\* attempted at most once, and exactly once in an invocation that resolves
\* (the file read only for path-form input).
C24_NoRetry ==
  \A i \in Invs :
    Generate(i) =>
      /\ \A o \in ExternalOperations : Executed(i, o) <= 1
      /\ pc[i] = "resolved" =>
           /\ Executed(i, "launch") = 1
           /\ Executed(i, "pdf") = 1
           /\ Executed(i, "read") = (IF PathForm(i) THEN 1 ELSE 0)

C24_Witness ==
  \E i, j \in Invs :
    /\ PathForm(i) /\ pc[i] = "resolved" /\ Executed(i, "read") = 1
    /\ ObjectForm(j) /\ pc[j] = "rejected" /\ ThrewAt(j) = "launch"
    /\ Executed(j, "launch") = 1 /\ Executed(j, "read") = 0

\* ------------------------------------- properties of the transient directory
\* Invocation i has touched tmpDir: made it, written a file in it or deleted
\* one, or a file of its own is in it.
TouchedTmp(i) ==
  \/ "tmp" \in made[i]
  \/ wrote[i]
  \/ unlinks[i] > 0
  \/ Executed(i, "tmp_mkdir") + Executed(i, "tmp_write") + Executed(i, "unlink") > 0
  \/ \E t \in Stamps : tmpFiles[t] = i

NoResume == {"number", "null", "undefined"}

\* C26: for every resume argument that is neither a string nor a resume
\* object, null and undefined included, generateResumePDF rejects with the
\* 'Resume must be either a JSON object or a file path string' error, before
\* any filesystem write and before any engine launch.
C26_BadResumeRejectsEarly ==
  \A i \in Invs :
    (Generate(i) /\ resume[i] \in NoResume) =>
      /\ ~wrote[i] /\ made[i] = {} /\ browser[i] = "none"
      /\ Executed(i, "tmp_mkdir") + Executed(i, "tmp_write") + Executed(i, "launch") = 0
      /\ pc[i] \in Finished => (pc[i] = "rejected" /\ err[i] = "BadResume")

\* --------------------------------------- properties of the destination file
\* C27: whenever generateResumePDF rejects, this invocation has not written a
\* PDF to the destination path: a failure in any step, engine close and
\* transient-file deletion included, never coexists with a destination file
\* produced by the same invocation.
C27_NoPdfWhenRejected ==
  \A i \in Invs :
    (Generate(i) /\ pc[i] = "rejected") =>
      /\ outFiles[outputPath[i]] # i
      /\ Executed(i, "pdf") > 0 => ThrewAt(i) = "pdf"

\* ----------------------------------------------- properties of the input file
\* C28: generateResumePDF never deletes or rewrites the file at a
\* caller-supplied input path: in every path-form execution, successful or
\* failed, the invocation writes no file at its resume path and deletes none,
\* and the input file is as the caller left it.
C28_InputFileUntouched ==
  \A i \in Invs :
    PathForm(i) =>
      /\ inputFiles[resume[i]] = GivenFile(resume[i])
      /\ Executed(i, "tmp_write") = 0 /\ ~wrote[i]
      /\ Executed(i, "unlink") = 0 /\ unlinks[i] = 0
      /\ pc[i] # "unlink"

C28_Witness ==
  \E i, j \in Invs :
    /\ PathForm(i) /\ resume[i] = "path_valid" /\ pc[i] = "resolved"
    /\ Executed(i, "cleanup") = 1
    /\ inputFiles["path_valid"] = "intact"
    /\ PathForm(j) /\ resume[j] = "path_invalid" /\ pc[j] = "rejected"
    /\ inputFiles["path_invalid"] = "intact"

\* ------------------------------------- properties of colliding invocations
\* Invocations i and j, both given an object, computed the same transient
\* file path and both wrote it.
Collide(i, j) ==
  /\ i # j
  /\ ObjectForm(i) /\ ObjectForm(j)
  /\ wrote[i] /\ wrote[j]
  /\ resumePath[i] = resumePath[j]

\* C29: when two concurrent object-form invocations compute the same
\* transient file path, neither fails because of the collision, in any
\* interleaving of their filesystem steps: an invocation that passed the
\* existence test finds the file when it unlinks, so no unlink fails for a
\* file the other invocation deleted.
C29_CollisionHarmless ==
  \A i, j \in Invs :
    Collide(i, j) =>
      /\ pc[i] = "unlink" => tmpFiles[resumePath[i]] # 0
      /\ (pc[i] = "rejected" /\ ThrewAt(i) = "unlink" /\ unlinks[j] = 0)
            => tmpFiles[resumePath[i]] # 0

====
